---- MODULE Spec2Model ----
(***************************************************************************)
(* A model of the per-frame simulation core of radical-aces-js:            *)
(*   - Projectile            (src/unnamed/part_002, weapons/Projectile.ts) *)
(*   - ProjectileManager     (src/src/weapons/ProjectileManager.ts)        *)
(*   - WeaponSystem          (src/src/weapons/WeaponSystem.ts)             *)
(*   - the frame loop        (src/src/core/engine.ts, scenes/GameScene.ts) *)
(*                                                                         *)
(* Numbers.  JavaScript numbers are modelled in fixed point.  Lengths and   *)
(* speeds are in tenths of a world unit: 2.4 is 24, a speed of 350 per     *)
(* second is 3500.  Seconds and the components of a unit direction are in  *)
(* thousandths: a deltaTime of 0.1 s is 100, the component 1.0 is 1000.    *)
(* Times that the code keeps in milliseconds (age, lifetime, lastFireTime, *)
(* Date.now()) are integers of milliseconds.  A product with a number in   *)
(* thousandths is divided by 1000 again, as in FxMul.  The aircraft's      *)
(* position and velocity are in thousandths of a world unit, its angles    *)
(* in ten-thousandths of a radian and its throttle in ten-thousandths.     *)
(*                                                                         *)
(* The repository holds two sources of the PlayerAircraft class: the one   *)
(* in src/unnamed/part_009 and an older one behind the AssetManager in     *)
(* src/src/core/assets/asset-manager.ts.  The variable `legacy` says which *)
(* of the two the build uses.                                              *)
(***************************************************************************)
EXTENDS Integers, Sequences, FiniteSets, TLC

VARIABLES
    projectiles,   \* ProjectileManager.projectiles: Projectile[] in insertion order
    sceneMeshes,   \* ids of the projectile meshes attached to the THREE.Scene
    nextId,        \* identity of the next Projectile object to be constructed
    lastHits,      \* the array the latest operation returned, if it was checkCollisions
    lastRemoved,   \* the Projectile objects the latest operation took out of the store
    liveEvicted,   \* createProjectile has evicted a projectile with age < lifetime
    kept,          \* id of a struck projectile a caller of checkCollisions kept, 0 if none
    lastOp,        \* the operation that ran last
    spaceDown,     \* InputManager.keyStates.get(" ").pressed
    isFiring,      \* WeaponSystem.isFiring
    lastFireTime,  \* WeaponSystem.lastFireTime (a Date.now() reading, ms)
    clock,         \* real time since the engine started, ms (performance.now())
    lastTime,      \* GameEngine.lastTime (a performance.now() reading, ms)
    deltaTime,     \* the deltaTime of the running frame, seconds (fixed point)
    nowArg,        \* the time argument GameScene.update hands to WeaponSystem
    pc,            \* position of the frame loop inside GameScene.update
    prevFireTime,  \* lastFireTime before the latest shot; -1 before the second shot
    shots,         \* projectiles the WeaponSystem has created so far
    spawnedInUpdate, \* projectiles created by the latest WeaponSystem.update call
    holdStart,     \* clock of the first update of the current uninterrupted hold, -1 if none
    holdFires,     \* projectiles spawned since holdStart
    keys,          \* the InputKey values, other than SPACE, whose key state is pressed
    legacy,        \* the PlayerAircraft class is the one of asset-manager.ts
    aircraft,      \* the PlayerAircraft object: throttle, isAccelerating,
                   \* isDecelerating, rotation and rotationVelocity, velocity,
                   \* position and meshRotation (mesh.position, mesh.rotation),
                   \* isInBankedTurn; groundClamped says that the latest
                   \* updateTransform took its ground branch
    modelType,     \* PlayerAircraft.modelType
    maxSpeed,      \* PlayerAircraft.maxSpeed
    pendingLoads,  \* changeAircraftModel calls waiting at `await`, oldest first
    errorsLogged,  \* console.error calls of changeAircraftModel so far
    lastModelRequest, \* argument of the latest setModelType call, 0 before the first
    pendingBefore, \* argument of the changeAircraftModel call that waited at `await`
                   \* when the latest load began, 0 if none waited
    levelLoaded,   \* GameScene.loadLevel has run
    stalePose,     \* the PlayerAircraft object as it was when the running frame began
    scheduled,     \* GameEngine.animationFrameId names a pending animation frame
    faults,        \* exceptions thrown out of GameEngine.update so far
    currentScene,  \* SceneManager.currentScene, "none" for null
    startScreen    \* the StartScreen object: isVisible, animationFrameId (0 for
                   \* null); requests holds the ids of its update callbacks
                   \* that the browser has scheduled, nextRequest is the id
                   \* the next requestAnimationFrame returns

storeVars  == <<projectiles, sceneMeshes, nextId, lastHits, lastRemoved, liveEvicted>>
weaponVars == <<isFiring, lastFireTime, prevFireTime, shots, spawnedInUpdate, holdStart,
                holdFires>>
frameVars  == <<spaceDown, clock, lastTime, deltaTime, nowArg, pc>>
aircraftVars == <<aircraft>>
modelVars  == <<modelType, maxSpeed, pendingLoads, errorsLogged, lastModelRequest,
               pendingBefore>>
uiVars     == <<currentScene, startScreen>>
loopVars   == <<keys, legacy, levelLoaded, stalePose, scheduled, faults, uiVars>>
vars == <<projectiles, sceneMeshes, nextId, lastHits, lastRemoved, liveEvicted, kept, lastOp,
          spaceDown, isFiring, lastFireTime, clock, lastTime, deltaTime, nowArg, pc,
          prevFireTime, shots, spawnedInUpdate, holdStart, holdFires,
          keys, legacy, aircraft, modelType, maxSpeed, pendingLoads, errorsLogged,
          lastModelRequest, pendingBefore, levelLoaded, stalePose, scheduled, faults,
          currentScene, startScreen>>

-----------------------------------------------------------------------------
(* Bounds of the model *)

\* Projectile objects constructed in a run of the store specification.
MaxSpawns == 21
\* Projectile objects constructed in a run of the collision specification.
MaxShots == 3
\* projectiles constructed in ZeroSpec
MaxZeroShots == 3
\* Real time, in ms, after which the frame loop is no longer followed.
MaxClock == 1400
\* The same for the frame loop with the fire key held down throughout.
MaxHoldClock == 2100
\* Date.now() when the engine starts, ms; stands for any epoch time >= 200.
EpochAtStart == 1000
\* FlightSpec: the keys change until this time, ms, and are held afterwards
MaxKeyClock == 300
\* horizon of FlightSpec, ms
MaxFlightClock == 2200
\* horizon of ModelSpec, ms
MaxModelClock == 300
\* ModelSpec: console.error calls after which setModelType is not called again
MaxErrorsLogged == 2
\* StartSpec: requestAnimationFrame calls of the StartScreen
MaxFrameRequests == 6
\* projectiles spawned in LiveSpec
MaxLiveSpawns == 2
\* the changeAircraftModel calls that may wait for their loads at once
MaxPendingLoads == 2
\* horizon of FaultSpec, ms
MaxFaultClock == 500
\* exceptions thrown in FaultSpec
MaxFaults == 2

-----------------------------------------------------------------------------
(* Fixed-point arithmetic and THREE.Vector3 *)

Abs(n) == IF n < 0 THEN -n ELSE n

\* Integer division that truncates toward zero, as a float product rounds for
\* the exact values used here.
Quot(a, b) == IF a >= 0 THEN a \div b ELSE -((-a) \div b)

FxMul(a, b) == Quot(a * b, 1000)

\* the largest r in lo..hi with r * r <= n, by bisection
RECURSIVE RootBetween(_, _, _)
RootBetween(n, lo, hi) ==
    IF lo >= hi THEN lo
    ELSE LET mid == (lo + hi + 1) \div 2
         IN IF mid * mid <= n THEN RootBetween(n, mid, hi)
                              ELSE RootBetween(n, lo, mid - 1)

\* Math.sqrt, rounded down; arguments stay below 2^30
ISqrt(n) == RootBetween(n, 0, 32767)

Vec(x, y, z) == <<x, y, z>>

\* Vector3.add
VAdd(a, b) == <<a[1] + b[1], a[2] + b[2], a[3] + b[3]>>

\* Vector3.multiplyScalar; one of the two factors is in thousandths
VScale(a, k) == <<FxMul(a[1], k), FxMul(a[2], k), FxMul(a[3], k)>>

\* Vector3.length
VLength(a) == ISqrt(a[1] * a[1] + a[2] * a[2] + a[3] * a[3])

\* Vector3.normalize: divideScalar(length() || 1); the zero vector stays zero
VNormalize(a) ==
    LET len == VLength(a)
        d == IF len = 0 THEN 1000 ELSE len
    IN <<Quot(a[1] * 1000, d), Quot(a[2] * 1000, d), Quot(a[3] * 1000, d)>>

\* Vector3.distanceToSquared
VDistSq(a, b) ==
    (a[1] - b[1]) * (a[1] - b[1]) + (a[2] - b[2]) * (a[2] - b[2])
        + (a[3] - b[3]) * (a[3] - b[3])

\* Math.PI, 2 * Math.PI and Math.PI / 2 in ten-thousandths of a radian
Pi == 31416
TwoPi == 62832
HalfPi == 15708

\* an angle brought into (-Pi, Pi]
WrapAngle(a) == LET m == a % TwoPi IN IF m > Pi THEN m - TwoPi ELSE m

\* a number in ten-thousandths rounded to thousandths
ToThousandths(v) == IF v >= 0 THEN (v + 5) \div 10 ELSE -((5 - v) \div 10)

\* Math.sin for -Pi/2 <= x <= Pi/2 by its series up to x^9, in ten-thousandths
SinSeries(x) ==
    LET x2 == (x * x) \div 10000
        t3 == 10000 - x2 \div 72
        t2 == 10000 - ((x2 * t3) \div 10000) \div 42
        t1 == 10000 - ((x2 * t2) \div 10000) \div 20
        t0 == 10000 - ((x2 * t1) \div 10000) \div 6
    IN Quot(x * t0, 10000)

\* Math.cos for -Pi/2 <= x <= Pi/2 by its series up to x^8, in ten-thousandths
CosSeries(x) ==
    LET x2 == (x * x) \div 10000
        t3 == 10000 - x2 \div 56
        t2 == 10000 - ((x2 * t3) \div 10000) \div 30
        t1 == 10000 - ((x2 * t2) \div 10000) \div 12
    IN 10000 - ((x2 * t1) \div 10000) \div 2

\* Math.sin of an angle in ten-thousandths of a radian, in thousandths
Sin(a) ==
    LET w == WrapAngle(a)
    IN ToThousandths(IF w > HalfPi THEN SinSeries(Pi - w)
                     ELSE IF w < -HalfPi THEN SinSeries(-Pi - w)
                     ELSE SinSeries(w))

\* Math.cos of an angle in ten-thousandths of a radian, in thousandths
Cos(a) ==
    LET w == WrapAngle(a)
    IN ToThousandths(IF w > HalfPi THEN -CosSeries(Pi - w)
                     ELSE IF w < -HalfPi THEN -CosSeries(Pi + w)
                     ELSE CosSeries(w))

\* THREE.Euler(x, y, z, order): angles in ten-thousandths of a radian
Euler(x, y, z, order) == [x |-> x, y |-> y, z |-> z, order |-> order]

\* rotations about the x, y and z axes by the angle a
RotateX(v, a) ==
    LET c == Cos(a)
        s == Sin(a)
    IN <<v[1], FxMul(v[2], c) - FxMul(v[3], s), FxMul(v[2], s) + FxMul(v[3], c)>>
RotateY(v, a) ==
    LET c == Cos(a)
        s == Sin(a)
    IN <<FxMul(v[1], c) + FxMul(v[3], s), v[2], FxMul(v[3], c) - FxMul(v[1], s)>>
RotateZ(v, a) ==
    LET c == Cos(a)
        s == Sin(a)
    IN <<FxMul(v[1], c) - FxMul(v[2], s), FxMul(v[1], s) + FxMul(v[2], c), v[3]>>

\* Vector3.applyEuler: the rotation matrix of order "YXZ" is Ry Rx Rz, of the
\* default order "XYZ" Rx Ry Rz
applyEuler(v, e) ==
    IF e.order = "YXZ"
    THEN RotateY(RotateX(RotateZ(v, e.z), e.x), e.y)
    ELSE RotateX(RotateY(RotateZ(v, e.z), e.y), e.x)

-----------------------------------------------------------------------------
(* Projectile *)

\* A Partial<ProjectileConfig> is a record that may lack fields.
NoConfig == [k \in {} |-> 0]

Has(cfg, k) == k \in DOMAIN cfg

\* JavaScript's a || b on numbers: b when a is undefined or 0
OrElse(cfg, k, dflt) == IF Has(cfg, k) /\ cfg[k] # 0 THEN cfg[k] ELSE dflt

\* new Projectile(position, direction, config)
NewProjectile(id, position, direction, config) ==
    LET dir == VNormalize(direction)
    IN [ id        |-> id,
         position  |-> position,
         direction |-> dir,
         speed     |-> config.speed,
         lifetime  |-> config.lifetime,
         hitRadius |-> OrElse(config, "hitRadius", 2 * OrElse(config, "size", 10)),
         velocity  |-> VScale(dir, config.speed),
         age       |-> 0,
         active    |-> TRUE ]

\* Projectile.deactivate
deactivate(p) == [p EXCEPT !.active = FALSE]

\* deltaTime * 1000: seconds (fixed point, thousandths) to milliseconds
SecondsToMs(dt) == (dt * 1000) \div 1000

\* this.age += deltaTime * 1000
AgeAfter(p, dt) == p.age + SecondsToMs(dt)

\* LifetimeExceeded with `>` for `>=`: a projectile lives one update too long
LifetimeExceededStrict(age, lifetime) == age > lifetime

\* the test `this.age >= this.lifetime` of Projectile.update
LifetimeExceeded(age, lifetime) == age >= lifetime

\* variant: the step is taken along the direction, without the speed
StepFromDirection(p, dt) == VScale(p.direction, dt)

\* `_tempVector2.copy(this.velocity).multiplyScalar(deltaTime)`
Step(p, dt) == VScale(p.velocity, dt)

\* variant: update returns before it ages and moves the projectile
ProjectileUpdateIdle(p, dt) == p

\* Projectile.update(deltaTime): the projectile afterwards; the method returns
\* its .active
ProjectileUpdate(p, dt) ==
    IF ~p.active THEN p
    ELSE IF LifetimeExceeded(AgeAfter(p, dt), p.lifetime)
         THEN deactivate([p EXCEPT !.age = AgeAfter(p, dt)])
         ELSE [p EXCEPT !.age = AgeAfter(p, dt),
                        !.position = VAdd(p.position, Step(p, dt))]

\* WithinRadius with `<=` for `<`: a projectile on the boundary is a hit
WithinRadiusInclusive(distanceSquared, radiusSum) ==
    distanceSquared <= radiusSum * radiusSum

\* the comparison of Projectile.checkCollision
WithinRadius(distanceSquared, radiusSum) == distanceSquared < radiusSum * radiusSum

\* Projectile.checkCollision(targetPosition, targetRadius)
checkCollision(p, targetPosition, targetRadius) ==
    /\ p.active
    /\ WithinRadius(VDistSq(p.position, targetPosition), p.hitRadius + targetRadius)

-----------------------------------------------------------------------------
(* ProjectileManager *)

maxProjectiles == 20

\* ProjectileManager.defaultProjectileConfig
defaultProjectileConfig ==
    [speed |-> 3500, damage |-> 3, lifetime |-> 1500, size |-> 12, hitRadius |-> 24]

\* { ...this.defaultProjectileConfig, ...config }
MergeConfig(dflt, config) ==
    [k \in (DOMAIN dflt) \cup (DOMAIN config) |->
        IF k \in DOMAIN config THEN config[k] ELSE dflt[k]]

Ids(ps) == {ps[i].id : i \in 1..Len(ps)}

\* Array.prototype.splice(i, 1), 1-based
RemoveAt(ps, i) == SubSeq(ps, 1, i - 1) \o SubSeq(ps, i + 1, Len(ps))

\* Array.prototype.indexOf by object identity, 1-based; 0 when absent
IndexOf(ps, id) ==
    IF id \in Ids(ps) THEN CHOOSE i \in 1..Len(ps) : ps[i].id = id ELSE 0

\* AtCapacity with `>` for `>=`: the store admits one projectile too many
AtCapacityOffByOne(ps) == Len(ps) > 20

\* the guard `this.projectiles.length >= this.maxProjectiles` of createProjectile
AtCapacity(ps) == Len(ps) >= maxProjectiles

\* Shift with pop() for shift(): the newest entry is taken, not the oldest
ShiftNewest(ps) == [taken |-> ps[Len(ps)], rest |-> SubSeq(ps, 1, Len(ps) - 1)]

\* Array.prototype.shift() on a non-empty array: the element taken and the rest
Shift(ps) == [taken |-> Head(ps), rest |-> Tail(ps)]

\* variant: the projectile shifted out is not handed to removeProjectile
EvictedNone(ps) == {}

\* the projectiles createProjectile takes out before it inserts: shift() when full
Evicted(ps) == IF AtCapacity(ps) /\ Len(ps) > 0 THEN {Shift(ps).taken} ELSE {}

\* the array after the eviction branch of createProjectile
AfterEviction(ps) == IF AtCapacity(ps) /\ Len(ps) > 0 THEN Shift(ps).rest ELSE ps

\* ProjectileManager.createProjectile(position, direction, config)
createProjectile(position, direction, config) ==
    LET fullConfig == MergeConfig(defaultProjectileConfig, config)
        projectile == NewProjectile(nextId, position, direction, fullConfig)
        gone       == Evicted(projectiles)
    IN /\ projectiles' = Append(AfterEviction(projectiles), projectile)
       /\ sceneMeshes' = (sceneMeshes \ {g.id : g \in gone}) \cup {projectile.id}
       /\ nextId' = nextId + 1
       /\ lastRemoved' = gone
       /\ liveEvicted' = (liveEvicted \/ \E g \in gone : g.age < g.lifetime)
       /\ lastHits' = <<>>

\* variant: after a removal the sweep passes over the entry that comes next
RECURSIVE updateSweepSkipping(_, _, _, _)
updateSweepSkipping(ps, i, dt, gone) ==
    IF i = 0 THEN [store |-> ps, gone |-> gone]
    ELSE LET q == ProjectileUpdate(ps[i], dt)
         IN IF ~q.active
            THEN updateSweepSkipping(RemoveAt(ps, i), IF i > 1 THEN i - 2 ELSE 0, dt,
                                     gone \cup {q})
            ELSE updateSweepSkipping([ps EXCEPT ![i] = q], i - 1, dt, gone)

\* the `while (i--)` sweep of ProjectileManager.update, from index i down to 1
RECURSIVE updateSweep(_, _, _, _)
updateSweep(ps, i, dt, gone) ==
    IF i = 0 THEN [store |-> ps, gone |-> gone]
    ELSE LET q == ProjectileUpdate(ps[i], dt)
         IN IF ~q.active
            THEN updateSweep(RemoveAt(ps, i), i - 1, dt, gone \cup {q})
            ELSE updateSweep([ps EXCEPT ![i] = q], i - 1, dt, gone)

\* ProjectileManager.update(deltaTime)
managerUpdate(dt) ==
    LET r == updateSweep(projectiles, Len(projectiles), dt, {})
    IN /\ projectiles' = r.store
       /\ sceneMeshes' = sceneMeshes \ {g.id : g \in r.gone}
       /\ lastRemoved' = r.gone
       /\ lastHits' = <<>>
       /\ UNCHANGED <<nextId, liveEvicted>>

\* variant: the hit is put in front of the collisions found so far
Unshift(collisions, p) == <<p>> \o collisions

\* `collisions.push(projectile)`
Push(collisions, p) == Append(collisions, p)

\* collisionSweep without the splice: a struck projectile stays in the store
RECURSIVE collisionSweepNoSplice(_, _, _, _, _)
collisionSweepNoSplice(ps, i, targetPosition, targetRadius, hits) ==
    IF i = 0 THEN [store |-> ps, hits |-> hits]
    ELSE IF WithinRadius(VDistSq(ps[i].position, targetPosition),
                         ps[i].hitRadius + targetRadius)
         THEN collisionSweepNoSplice(ps, i - 1, targetPosition, targetRadius,
                                     Append(hits, ps[i]))
         ELSE collisionSweepNoSplice(ps, i - 1, targetPosition, targetRadius, hits)

\* the `for (i = length - 1; i >= 0; i--)` sweep of checkCollisions
RECURSIVE collisionSweep(_, _, _, _, _)
collisionSweep(ps, i, targetPosition, targetRadius, hits) ==
    IF i = 0 THEN [store |-> ps, hits |-> hits]
    ELSE IF checkCollision(ps[i], targetPosition, targetRadius)
         THEN collisionSweep(RemoveAt(ps, i), i - 1, targetPosition, targetRadius,
                             Push(hits, deactivate(ps[i])))
         ELSE collisionSweep(ps, i - 1, targetPosition, targetRadius, hits)

\* ProjectileManager.checkCollisions(targetPosition, targetRadius)
checkCollisions(targetPosition, targetRadius) ==
    LET r == collisionSweep(projectiles, Len(projectiles), targetPosition,
                            targetRadius, <<>>)
        hitIds == {r.hits[i].id : i \in 1..Len(r.hits)}
    IN /\ projectiles' = r.store
       /\ sceneMeshes' = sceneMeshes \ hitIds
       /\ lastHits' = [i \in 1..Len(r.hits) |-> r.hits[i].id]
       /\ lastRemoved' = {r.hits[i] : i \in 1..Len(r.hits)}
       /\ UNCHANGED <<nextId, liveEvicted>>

\* ProjectileManager.removeProjectile(projectile), the projectile given by identity
removeProjectile(id) ==
    LET index == IndexOf(projectiles, id)
    IN /\ projectiles' = IF index # 0 THEN RemoveAt(projectiles, index) ELSE projectiles
       /\ sceneMeshes' = sceneMeshes \ {id}
       /\ lastRemoved' = IF index # 0 THEN {projectiles[index]} ELSE {}
       /\ lastHits' = <<>>
       /\ UNCHANGED <<nextId, liveEvicted>>

\* variant: the loop removes from the array it iterates, and every second
\* projectile is passed over
ClearedEverySecond(ps) == [i \in 1..(Len(ps) \div 2) |-> ps[2 * i]]

\* the array after `this.projectiles = []`
Cleared(ps) == <<>>

\* ProjectileManager.clearAllProjectiles(): Projectile.dispose() frees the
\* geometry of a THREE.Mesh and does nothing for the THREE.Group that a
\* projectile's mesh is, so that it has no part in the state
clearAllProjectiles ==
    /\ projectiles' = Cleared(projectiles)
    /\ sceneMeshes' = sceneMeshes \ Ids(projectiles)
    /\ lastRemoved' = {projectiles[i] : i \in 1..Len(projectiles)}
    /\ lastHits' = <<>>
    /\ UNCHANGED <<nextId, liveEvicted>>

\* ProjectileManager.getProjectileCount()
getProjectileCount == Len(projectiles)

-----------------------------------------------------------------------------
(* InputManager *)

\* enum InputKey
InputKey ==
    [UP |-> "ArrowUp", DOWN |-> "ArrowDown", LEFT |-> "ArrowLeft", RIGHT |-> "ArrowRight",
     SPACE |-> " ", SHIFT |-> "Shift", CTRL |-> "Control", W |-> "w", A |-> "a",
     S |-> "s", D |-> "d", Q |-> "q", E |-> "e", ONE |-> "1", TWO |-> "2",
     THREE |-> "3", FOUR |-> "4", FIVE |-> "5"]

\* InputKey.<name>; a name the enum lacks evaluates to undefined
KeyOf(name) == IF name \in DOMAIN InputKey THEN InputKey[name] ELSE "undefined"

\* InputManager.isKeyPressed(key): keyStates has entries for the enum's values
\* only, and undefined has none
isKeyPressed(key) == key \in keys

-----------------------------------------------------------------------------
(* PlayerAircraft, src/unnamed/part_009 *)

Min(a, b) == IF a < b THEN a ELSE b
Max(a, b) == IF a > b THEN a ELSE b

\* the PlayerAircraftConfig of the GameScene constructor
playerConfig ==
    [maxSpeed |-> 200, acceleration |-> 1500, deceleration |-> 1500, turnRate |-> 1200,
     pitchRate |-> 1200, rollRate |-> 1200, modelType |-> 2]

\* new PlayerAircraft(playerConfig) followed by setPosition(0, 50, -500), as
\* in the GameScene constructor
NewPlayerAircraft ==
    [throttle |-> 0, isAccelerating |-> FALSE, isDecelerating |-> FALSE,
     rotation |-> Euler(0, 0, 0, "YXZ"), rotationVelocity |-> Vec(0, 0, 0),
     velocity |-> Vec(0, 0, 0), position |-> Vec(0, 50000, -500000),
     meshRotation |-> Euler(0, 0, 0, "XYZ"), isInBankedTurn |-> FALSE,
     groundClamped |-> FALSE]

\* the key states handleInput reads
UpPressed(ks) == KeyOf("UP") \in ks \/ KeyOf("W") \in ks
DownPressed(ks) == KeyOf("DOWN") \in ks \/ KeyOf("S") \in ks
LeftPressed(ks) == KeyOf("LEFT") \in ks \/ KeyOf("A") \in ks
RightPressed(ks) == KeyOf("RIGHT") \in ks \/ KeyOf("D") \in ks

\* `const turnRate = 0.025` of handleInput
turnRate == 250

\* the branches `left && up` and `right && up` of handleInput
BankedTurn(ks) == (LeftPressed(ks) /\ UpPressed(ks)) \/ (RightPressed(ks) /\ UpPressed(ks))

\* targetPitch at the end of the key handling
TargetPitch(ks) ==
    IF BankedTurn(ks) THEN -3000
    ELSE IF UpPressed(ks) THEN -3000
    ELSE IF DownPressed(ks) THEN 3000
    ELSE 0

\* targetRoll at the end of the key handling
TargetRoll(ks) ==
    IF LeftPressed(ks) /\ UpPressed(ks) THEN -14000
    ELSE IF RightPressed(ks) /\ UpPressed(ks) THEN 14000
    ELSE IF LeftPressed(ks) THEN -12000
    ELSE IF RightPressed(ks) THEN 12000
    ELSE 0

\* variant: the single-axis turn is applied on top of the banked turn
YawStepBoth(ks) ==
    (IF LeftPressed(ks) /\ UpPressed(ks) THEN (turnRate * 30) \div 10
     ELSE IF RightPressed(ks) /\ UpPressed(ks) THEN -((turnRate * 30) \div 10)
     ELSE 0)
    + (IF LeftPressed(ks) THEN (turnRate * 25) \div 10
       ELSE IF RightPressed(ks) THEN -((turnRate * 25) \div 10)
       ELSE 0)

\* what the key handling adds to rotation.y
YawStep(ks) ==
    IF LeftPressed(ks) /\ UpPressed(ks) THEN (turnRate * 30) \div 10
    ELSE IF RightPressed(ks) /\ UpPressed(ks) THEN -((turnRate * 30) \div 10)
    ELSE IF LeftPressed(ks) THEN (turnRate * 25) \div 10
    ELSE IF RightPressed(ks) THEN -((turnRate * 25) \div 10)
    ELSE 0

\* the transition of pitch and roll: snap within 0.01, else move by
\* transitionRate = 0.3 of the difference
Ease(current, target) ==
    IF Abs(current - target) < 100 THEN target
    ELSE current + Quot((target - current) * 3, 10)

\* PlayerAircraft.handleInput(inputManager)
AircraftHandleInput(a, ks) ==
    [a EXCEPT !.isInBankedTurn = BankedTurn(ks),
              !.isAccelerating = KeyOf("SHIFT") \in ks,
              !.isDecelerating = KeyOf("Z") \in ks,
              !.rotation = [@ EXCEPT !.y = @ + YawStep(ks),
                                     !.x = Ease(@, TargetPitch(ks)),
                                     !.z = Ease(@, TargetRoll(ks))]]

\* variant: the throttle is not capped
ThrottleUpUnclamped(t) == t + 500

\* Math.min(this.throttle + 0.05, 1)
ThrottleUp(t) == Min(t + 500, 10000)

\* Math.max(this.throttle - 0.08, 0)
ThrottleDown(t) == Max(t - 800, 0)

\* PlayerAircraft.updatePhysics(deltaTime), this.maxSpeed being `speed`
AircraftUpdatePhysics(a, dt, speed) ==
    LET t == IF a.isAccelerating THEN ThrottleUp(a.throttle)
             ELSE IF a.isDecelerating THEN ThrottleDown(a.throttle)
             ELSE a.throttle
        baseSpeed == (speed * t) \div 10
        direction == applyEuler(Vec(0, 0, 1000), a.rotation)
        speedMultiplier == 3
        v == [i \in 1..3 |-> FxMul(FxMul(direction[i], baseSpeed), dt) * speedMultiplier]
        lift == IF t > 3000 THEN (t * dt * 3) \div 100000 ELSE 0
        gravity == (dt * 18) \div 100
    IN [a EXCEPT !.throttle = t,
                 !.velocity = <<v[1], v[2] + lift - gravity, v[3]>>]

\* variant: no ground
BelowGroundNever(y) == FALSE

\* the ground test of updateTransform: `this.mesh.position.y < 5`
BelowGround(y) == y < 5000

\* PlayerAircraft.updateTransform()
AircraftUpdateTransform(a) ==
    LET p == VAdd(a.position, a.velocity)
    IN IF BelowGround(p[2])
       THEN [a EXCEPT !.position = <<p[1], 5000, p[3]>>,
                      !.velocity = <<a.velocity[1], 0, a.velocity[3]>>,
                      !.meshRotation = a.rotation,
                      !.groundClamped = TRUE]
       ELSE [a EXCEPT !.position = p,
                      !.meshRotation = a.rotation,
                      !.groundClamped = FALSE]

-----------------------------------------------------------------------------
(* PlayerAircraft, the copy in src/src/core/assets/asset-manager.ts *)

\* Math.PI / 3
PiThird == Pi \div 3

\* Math.min(deltaTime, 0.03) * 60
NormalizedDelta(dt) == Min(dt, 30) * 60

\* handleInput: rotationVelocity after the key handling
LegacyRotationVelocity(a, ks) ==
    LET left == KeyOf("LEFT") \in ks \/ KeyOf("A") \in ks
        right == KeyOf("RIGHT") \in ks \/ KeyOf("D") \in ks
        turn == (playerConfig.turnRate * 15) \div 10
        roll == (playerConfig.rollRate * 15) \div 10
        pitch == (playerConfig.pitchRate * 15) \div 10
        level == (playerConfig.rollRate * 12) \div 10
    IN << IF KeyOf("E") \in ks THEN pitch ELSE IF KeyOf("Q") \in ks THEN -pitch ELSE 0,
          IF right THEN -turn ELSE IF left THEN turn ELSE 0,
          IF right THEN -roll
          ELSE IF left THEN roll
          ELSE IF a.meshRotation.z > 100 THEN -level
          ELSE IF a.meshRotation.z < -100 THEN level
          ELSE 0 >>

\* PlayerAircraft.handleInput(inputManager)
LegacyHandleInput(a, ks) ==
    [a EXCEPT !.isAccelerating = KeyOf("UP") \in ks \/ KeyOf("W") \in ks,
              !.isDecelerating = KeyOf("DOWN") \in ks \/ KeyOf("S") \in ks,
              !.rotationVelocity = LegacyRotationVelocity(a, ks)]

\* variant: the pitch is not constrained
ClampPitchNone(x) == x

\* Math.max(Math.min(this.rotation.x, Math.PI / 3), -Math.PI / 3)
ClampPitch(x) == Max(Min(x, PiThird), -PiThird)

\* PlayerAircraft.updatePhysics(deltaTime), this.maxSpeed being `speed`
LegacyUpdatePhysics(a, dt, speed) ==
    LET nd == NormalizedDelta(dt)
        accelerationFactor == IF a.throttle < 1000 THEN 5 ELSE 10
        t == IF a.isAccelerating
             THEN Min(a.throttle
                      + FxMul((playerConfig.acceleration * accelerationFactor) \div 10, nd),
                      10000)
             ELSE IF a.isDecelerating
             THEN Max(a.throttle - FxMul(playerConfig.deceleration, nd), 0)
             ELSE a.throttle
        forwardDirection == applyEuler(Vec(0, 0, 1000), a.meshRotation)
        currentSpeed == (speed * t) \div 10
        v == [i \in 1..3 |-> FxMul(FxMul(forwardDirection[i], currentSpeed), nd)]
        gravityEffect == IF t < 3000 /\ a.position[2] > 2500
                         THEN ((3000 - t) * 15 * nd) \div 1000000
                         ELSE 0
    IN [a EXCEPT !.throttle = t,
                 !.velocity = <<v[1], v[2] - gravityEffect, v[3]>>,
                 !.rotation = [@ EXCEPT
                     !.x = ClampPitch(@ + FxMul(a.rotationVelocity[1], nd)),
                     !.y = @ + FxMul(a.rotationVelocity[2], nd),
                     !.z = @ + FxMul(a.rotationVelocity[3], nd)]]

\* PlayerAircraft.updateTransform(): the mesh's Euler keeps its own order
LegacyUpdateTransform(a) ==
    LET p == VAdd(a.position, a.velocity)
        r == [a.meshRotation EXCEPT !.x = a.rotation.x, !.y = a.rotation.y,
                                    !.z = a.rotation.z]
    IN IF p[2] < 2000
       THEN [a EXCEPT !.position = <<p[1], 2000, p[3]>>,
                      !.velocity = <<a.velocity[1], 0, a.velocity[3]>>,
                      !.meshRotation = r,
                      !.groundClamped = TRUE]
       ELSE [a EXCEPT !.position = p, !.meshRotation = r, !.groundClamped = FALSE]

-----------------------------------------------------------------------------
(* PlayerAircraft, both sources *)

\* PlayerAircraft.update(deltaTime, inputManager): handleInput, updatePhysics,
\* updateTransform; the aircraft afterwards
aircraftUpdate(a, ks, dt, speed) ==
    IF legacy
    THEN LegacyUpdateTransform(LegacyUpdatePhysics(LegacyHandleInput(a, ks), dt, speed))
    ELSE AircraftUpdateTransform(
             AircraftUpdatePhysics(AircraftHandleInput(a, ks), dt, speed))

\* PlayerAircraft.setPosition(position)
setPosition(a, position) == [a EXCEPT !.position = position]

\* variant: the throttle is left as it was
resetStateKeepThrottle(a) ==
    [a EXCEPT !.velocity = Vec(0, 0, 0),
              !.rotation = [@ EXCEPT !.x = 0, !.y = 0, !.z = 0],
              !.meshRotation = [@ EXCEPT !.x = 0, !.y = 0, !.z = 0],
              !.rotationVelocity = Vec(0, 0, 0)]

\* PlayerAircraft.resetState()
resetState(a) ==
    [a EXCEPT !.velocity = Vec(0, 0, 0),
              !.rotation = [@ EXCEPT !.x = 0, !.y = 0, !.z = 0],
              !.meshRotation = [@ EXCEPT !.x = 0, !.y = 0, !.z = 0],
              !.throttle = 0,
              !.rotationVelocity = Vec(0, 0, 0)]

\* the `models` table of changeAircraftModel
models ==
    <<[name |-> "E-7 Sky Bullet", speed |-> 120],
      [name |-> "BP-6 Hammer Head", speed |-> 100],
      [name |-> "E-9 Dragon Bird", speed |-> 90],
      [name |-> "EXA-1 Destroyer", speed |-> 80],
      [name |-> "Silver F-51 Legend", speed |-> 76]>>

\* variant: no range check
InvalidModelTypeNever(id) == FALSE

\* the guard `modelType < 1 || modelType > 5` of changeAircraftModel
InvalidModelType(id) == id < 1 \/ id > 5

\* the guard `modelType === this.modelType` of setModelType
SameModelType(id, current) == id = current

\* PlayerAircraft.setModelType(modelType) up to the `await` of
\* changeAircraftModel
setModelType(id) ==
    /\ lastModelRequest' = id
    /\ IF SameModelType(id, modelType)
       THEN UNCHANGED <<modelType, maxSpeed, pendingLoads, errorsLogged, pendingBefore>>
       ELSE IF InvalidModelType(id)
       THEN /\ errorsLogged' = errorsLogged + 1
            /\ UNCHANGED <<modelType, maxSpeed, pendingLoads, pendingBefore>>
       ELSE /\ modelType' = id
            /\ pendingLoads' = Append(pendingLoads, id)
            /\ pendingBefore' = IF pendingLoads = <<>> THEN 0
                                ELSE pendingLoads[Len(pendingLoads)]
            /\ UNCHANGED <<maxSpeed, errorsLogged>>

\* `this.maxSpeed = models[modelType - 1].speed`: reading `speed` of an entry
\* the table lacks throws, and maxSpeed keeps its value
SpeedOfModel(id, speed) == IF id \in DOMAIN models THEN models[id].speed ELSE speed

CompletionOrderNewestFirst(n) == [i \in 1..n |-> n + 1 - i]

\* the order in which n calls that wait at `await this.loadAircraftModel()`
\* resume, as indices into the calls in call order.  The body of
\* AircraftModelLoader.loadAircraftModel awaits nothing, so every call waits
\* the same number of promise turns and the calls resume in call order
CompletionOrder(n) == [i \in 1..n |-> i]

\* changeAircraftModel after `await this.loadAircraftModel()`, for the call
\* that resumes first: it writes the speed of its own argument
completeLoad ==
    LET first == CompletionOrder(Len(pendingLoads))[1]
    IN  /\ maxSpeed' = SpeedOfModel(pendingLoads[first], maxSpeed)
        /\ pendingLoads' = RemoveAt(pendingLoads, first)
        /\ UNCHANGED <<modelType, errorsLogged, lastModelRequest, pendingBefore>>

\* changeAircraftModel after `await this.loadAircraftModel()`, for all the
\* calls that wait: the call that resumes last writes maxSpeed last
resumeChangeAircraftModel ==
    /\ maxSpeed' = IF Len(pendingLoads) > 0
                   THEN LET n == Len(pendingLoads)
                        IN  SpeedOfModel(pendingLoads[CompletionOrder(n)[n]], maxSpeed)
                   ELSE maxSpeed
    /\ pendingLoads' = <<>>
    /\ UNCHANGED <<modelType, errorsLogged, lastModelRequest, pendingBefore>>

-----------------------------------------------------------------------------
(* StartScreen, SceneManager and the scene handling of the GameEngine *)

\* enum SceneType
SceneType == {"start", "game", "pause", "settings", "credits", "game_over"}

\* new StartScreen(options): UIComponent leaves isVisible true when the
\* options name no visibility; animationFrameId is null
NewStartScreen ==
    [isVisible |-> TRUE, animationFrameId |-> 0, requests |-> {}, nextRequest |-> 1]

\* `this.animationFrameId = requestAnimationFrame(this.update.bind(this))`
requestAnimationFrame(s) ==
    [s EXCEPT !.animationFrameId = s.nextRequest,
              !.requests = s.requests \cup {s.nextRequest},
              !.nextRequest = s.nextRequest + 1]

\* StartScreen.update(): the animation of the phase changes nothing that
\* show and hide read; the last statement requests the next frame
startScreenUpdate(s) == requestAnimationFrame(s)

\* StartScreen.show(): UIComponent.show, setPhase, and `this.update()`
startScreenShow(s) == startScreenUpdate([s EXCEPT !.isVisible = TRUE])

\* StartScreen.hide(): UIComponent.hide, and cancelAnimationFrame of the
\* request that animationFrameId names
startScreenHide(s) ==
    IF s.animationFrameId # 0
    THEN [s EXCEPT !.isVisible = FALSE,
                   !.requests = s.requests \ {s.animationFrameId},
                   !.animationFrameId = 0]
    ELSE [s EXCEPT !.isVisible = FALSE]

\* GameEngine.handleSceneChange(scene, previous) up to its first await:
\* showStartScreen for START, the hide() of showGameScene for GAME; the
\* other show...Screen methods are empty
handleSceneChange(s, scene) ==
    IF scene = "start" THEN startScreenShow(s)
    ELSE IF scene = "game" THEN startScreenHide(s)
    ELSE s

\* SceneManager.changeScene(scene): notifySceneChanged calls the engine's
\* listener, which calls handleSceneChange, and loadScene calls
\* handleSceneChange again
changeScene(scene) ==
    IF scene = currentScene
    THEN UNCHANGED <<currentScene, startScreen>>
    ELSE /\ currentScene' = scene
         /\ startScreen' = handleSceneChange(handleSceneChange(startScreen, scene), scene)

\* the browser runs the update callbacks of the StartScreen that were
\* scheduled before the frame, the oldest request first; each requests a frame
RECURSIVE runCallbacks(_, _)
runCallbacks(s, ids) ==
    IF ids = {} THEN s
    ELSE LET id == CHOOSE i \in ids : \A j \in ids : i <= j
         IN runCallbacks(startScreenUpdate([s EXCEPT !.requests = s.requests \ {id}]),
                         ids \ {id})

-----------------------------------------------------------------------------
(* WeaponSystem *)

\* `const minFireInterval = 200` of tryFireWeapon, ms
minFireInterval == 200

\* WeaponSystem.weapons, 0-based as in the code
weapons ==
    [i \in 0..1 |->
        IF i = 0
        THEN [name |-> "Standard Laser", fireRate |-> 8, damage |-> 3,
              projectileSpeed |-> 3500, projectileLifetime |-> 2000,
              projectileSize |-> 12]
        ELSE [name |-> "Fast Laser", fireRate |-> 10, damage |-> 2,
              projectileSpeed |-> 4500, projectileLifetime |-> 2000,
              projectileSize |-> 10]]

\* WeaponSystem.currentWeaponIndex: set to 0 and never assigned again
currentWeaponIndex == 0

\* WeaponSystem.firePosition
firePosition == Vec(0, 0, -80)

\* Date.now(): the epoch at engine start plus the real time that has passed
DateNow == EpochAtStart + clock

\* PlayerAircraft.getPosition() and getRotation(): clones of the mesh's
playerPosition == aircraft.position
playerRotation == aircraft.meshRotation

\* a position in thousandths of a unit in the tenths the projectiles use
WorldToTenths(v) == <<Quot(v[1], 100), Quot(v[2], 100), Quot(v[3], 100)>>

\* the config object fireWeapon hands to createProjectile
WeaponProjectileConfig(w) ==
    [speed |-> w.projectileSpeed, damage |-> w.damage, lifetime |-> w.projectileLifetime,
     size |-> w.projectileSize,
     hitRadius |-> 2 * (IF w.projectileSize # 0 THEN w.projectileSize ELSE 10)]

\* the body of fireWeapon for a player position and rotation: the direction
\* (0,0,1) and the firePosition, both under the rotation
fireWeaponFrom(position, euler) ==
    createProjectile(VAdd(WorldToTenths(position), applyEuler(firePosition, euler)),
                     applyEuler(Vec(0, 0, 1000), euler),
                     WeaponProjectileConfig(weapons[currentWeaponIndex]))

\* variant: the pose the mesh had when the frame began
fireWeaponStale(currentTime) == fireWeaponFrom(stalePose.position, stalePose.meshRotation)

\* WeaponSystem.fireWeapon(currentTime)
fireWeapon(currentTime) == fireWeaponFrom(playerPosition, playerRotation)

\* variant: the interval taken from the weapon's fireRate (shots per second)
TooSoonByFireRate(now, last) ==
    now - last < 1000 \div weapons[currentWeaponIndex].fireRate

\* variant: no rate limit
TooSoonNever(now, last) == FALSE

\* the early return of tryFireWeapon: `now - this.lastFireTime < minFireInterval`
TooSoon(now, last) == now - last < minFireInterval

\* variant: the time argument is the clock
FireClockArgument(currentTime) == currentTime

\* the clock tryFireWeapon(currentTime) reads: `const now = Date.now()`
FireClock(currentTime) == DateNow

\* InputManager.isKeyPressed(InputKey.SPACE)
isKeyPressedSpace == spaceDown

\* WeaponSystem.handleInput(inputManager, timeManager)
handleInput == isFiring' = isKeyPressedSpace

\* variant: the trigger is not looked at
ShouldFireAlways(firing, now, last) == ~TooSoon(now, last)

\* whether update(deltaTime, timeManager) reaches fireWeapon: `if (this.isFiring)`
\* and no early return of tryFireWeapon
ShouldFire(firing, now, last) == firing /\ ~TooSoon(now, last)

\* WeaponSystem.update(deltaTime, timeManager) with tryFireWeapon inlined
weaponUpdate(dt, currentTime) ==
    LET now   == FireClock(currentTime)
        fires == ShouldFire(isFiring, now, lastFireTime)
        n     == IF fires THEN 1 ELSE 0
    IN /\ IF fires
          THEN /\ fireWeapon(currentTime)
               /\ lastFireTime' = now
               /\ prevFireTime' = IF shots = 0 THEN -1 ELSE lastFireTime
               /\ shots' = shots + 1
          ELSE UNCHANGED <<storeVars, lastFireTime, prevFireTime, shots>>
       /\ spawnedInUpdate' = n
       /\ IF isFiring
          THEN /\ holdStart' = IF holdStart = -1 THEN clock ELSE holdStart
               /\ holdFires' = holdFires + n
          ELSE /\ holdStart' = -1
               /\ holdFires' = 0
       /\ UNCHANGED isFiring

-----------------------------------------------------------------------------
(* The state after construction *)

\* all but which PlayerAircraft source is built
InitObjects ==
    /\ projectiles = <<>>
    /\ sceneMeshes = {}
    /\ nextId = 1
    /\ lastHits = <<>>
    /\ lastRemoved = {}
    /\ liveEvicted = FALSE
    /\ kept = 0
    /\ lastOp = "init"
    /\ spaceDown = FALSE
    /\ isFiring = FALSE
    /\ lastFireTime = 0
    /\ clock = 0
    /\ lastTime = 0
    /\ deltaTime = 0
    /\ nowArg = 0
    /\ pc = "idle"
    /\ prevFireTime = -1
    /\ shots = 0
    /\ spawnedInUpdate = 0
    /\ holdStart = -1
    /\ holdFires = 0
    /\ keys = {}
    /\ aircraft = NewPlayerAircraft
    /\ modelType = playerConfig.modelType
    /\ maxSpeed = playerConfig.maxSpeed
    /\ pendingLoads = <<>>
    /\ errorsLogged = 0
    /\ lastModelRequest = 0
    /\ pendingBefore = 0
    /\ levelLoaded = FALSE
    /\ stalePose = NewPlayerAircraft
    /\ scheduled = TRUE
    /\ faults = 0
    /\ currentScene = "none"
    /\ startScreen = NewStartScreen

Init == InitObjects /\ legacy = FALSE

-----------------------------------------------------------------------------
(* The store under any interleaving of its public operations.  Spec follows *)
(* up to MaxSpawns projectiles, so that the capacity is reached and passed; *)
(* every projectile is spawned at the origin along +z with the default      *)
(* configuration.                                                           *)

\* deltaTime values of advance, seconds
StoreDeltas == {750, 1500}

\* targets of a collision test: positions on the z axis and radii.  With the
\* default hitRadius 2.4 and radius 5, z = 7.4 is the boundary for a
\* projectile at the origin; one that has flown 0.75 s is at z = 262.5.
StoreTargets == {Vec(0, 0, 73), Vec(0, 0, 74), Vec(0, 0, 75), Vec(0, 0, 2650)}
StoreRadii == {50}

Spawn ==
    /\ nextId <= MaxSpawns
    /\ \E direction \in {Vec(0, 0, 1000), Vec(0, 0, 2000)} :
          createProjectile(Vec(0, 0, 0), direction, NoConfig)
    /\ lastOp' = "spawn"
    /\ UNCHANGED <<weaponVars, frameVars, kept, aircraftVars, modelVars, loopVars>>

Advance ==
    /\ \E dt \in StoreDeltas : managerUpdate(dt)
    /\ lastOp' = "advance"
    /\ UNCHANGED <<weaponVars, frameVars, kept, aircraftVars, modelVars, loopVars>>

TestCollisions ==
    /\ \E t \in StoreTargets, r \in StoreRadii : checkCollisions(t, r)
    /\ lastOp' = "testCollisions"
    /\ UNCHANGED <<weaponVars, frameVars, kept, aircraftVars, modelVars, loopVars>>

\* removeProjectile is handed the oldest projectile of the store, or one that
\* the previous operation took out of it
RemoveProjectile ==
    /\ \E id \in (IF Len(projectiles) > 0 THEN {projectiles[1].id} ELSE {})
                    \cup {g.id : g \in lastRemoved} :
          removeProjectile(id)
    /\ lastOp' = "removeProjectile"
    /\ UNCHANGED <<weaponVars, frameVars, kept, aircraftVars, modelVars, loopVars>>

RemoveAll ==
    /\ clearAllProjectiles
    /\ lastOp' = "removeAll"
    /\ UNCHANGED <<weaponVars, frameVars, kept, aircraftVars, modelVars, loopVars>>

Next == Spawn \/ Advance \/ TestCollisions \/ RemoveProjectile \/ RemoveAll

Spec == Init /\ [][Next]_vars

-----------------------------------------------------------------------------
(* The store with few projectiles and varied arguments: ShotSpec follows up  *)
(* to MaxShots projectiles with different directions, lifetimes and radii,   *)
(* advanced by different deltaTimes and tested against targets on and        *)
(* around the collision boundary.                                            *)

\* spawn directions: a unit vector and a vector of length 5
ShotDirections == {Vec(0, 0, 1000), Vec(3000, 0, 4000)}

\* spawn configurations: the defaults; a short lifetime with a falsy hitRadius,
\* so that the radius is 2 * size = 1.0
ShotConfigs == {NoConfig, [lifetime |-> 500, hitRadius |-> 0, size |-> 5]}

\* deltaTime values of advance, seconds
ShotDeltas == {250, 500}

\* targets: at distance 7.3, 7.4, 7.5 and 6 from the origin; at distance 5
\* ((3,4,0) from (0,0,87.5)) and 5.1 from where a projectile along +z is
\* after 0.25 s; and at distance 1 from where one along (0.6,0,0.8) is then
ShotTargets ==
    {Vec(0, 0, 73), Vec(0, 74, 0), Vec(0, 0, 75), Vec(0, 36, 48), Vec(30, 40, 875),
     Vec(0, 51, 875), Vec(525, 10, 700)}
ShotRadii == {0, 26, 50}

SpawnShot ==
    /\ nextId <= MaxShots
    /\ \E direction \in ShotDirections, config \in ShotConfigs :
          createProjectile(Vec(0, 0, 0), direction, config)
    /\ lastOp' = "spawn"
    /\ UNCHANGED <<weaponVars, frameVars, kept, aircraftVars, modelVars, loopVars>>

AdvanceShots ==
    /\ \E dt \in ShotDeltas : managerUpdate(dt)
    /\ lastOp' = "advance"
    /\ UNCHANGED <<weaponVars, frameVars, kept, aircraftVars, modelVars, loopVars>>

\* the caller keeps one of the returned projectiles, or what it kept before
TestShots ==
    /\ \E t \in ShotTargets, r \in ShotRadii : checkCollisions(t, r)
    /\ kept' \in {kept} \cup {lastHits'[i] : i \in 1..Len(lastHits')}
    /\ lastOp' = "testCollisions"
    /\ UNCHANGED <<weaponVars, frameVars, aircraftVars, modelVars, loopVars>>

\* removeProjectile is handed any projectile constructed so far
RemoveShot ==
    /\ \E id \in 1..(nextId - 1) : removeProjectile(id)
    /\ lastOp' = "removeProjectile"
    /\ UNCHANGED <<weaponVars, frameVars, kept, aircraftVars, modelVars, loopVars>>

ShotNext == SpawnShot \/ AdvanceShots \/ TestShots \/ RemoveShot \/ RemoveAll

ShotSpec == Init /\ [][ShotNext]_vars

-----------------------------------------------------------------------------
(* The store in a running game: in LiveSpec up to MaxLiveSpawns projectiles  *)
(* of two lifetimes are spawned and tested against targets at any time, and  *)
(* the frame loop keeps calling ProjectileManager.update: GameScene.update   *)
(* calls it in every frame, and every frame requests the next one, so an     *)
(* advance that can change the store is taken in the end.                    *)

LiveSpawn ==
    /\ nextId <= MaxLiveSpawns
    /\ \E config \in ShotConfigs : createProjectile(Vec(0, 0, 0), Vec(0, 0, 1000), config)
    /\ lastOp' = "spawn"
    /\ UNCHANGED <<weaponVars, frameVars, kept, aircraftVars, modelVars, loopVars>>

LiveNext == LiveSpawn \/ AdvanceShots \/ TestCollisions

LiveSpec == Init /\ [][LiveNext]_vars /\ WF_vars(AdvanceShots)

-----------------------------------------------------------------------------
(* The start screen: in StartSpec the scene changes, show() and hide() are   *)
(* called, and the browser runs animation frames, until MaxFrameRequests     *)
(* frames have been requested.                                               *)

uiUnchanged ==
    UNCHANGED <<storeVars, weaponVars, frameVars, kept, aircraftVars, modelVars,
                keys, legacy, levelLoaded, stalePose, scheduled, faults>>

\* a call of SceneManager.changeScene: GameEngine.init changes to START, the
\* menu callbacks to GAME, SETTINGS and CREDITS
ChangeScene ==
    /\ startScreen.nextRequest + 1 <= MaxFrameRequests
    /\ \E scene \in SceneType : changeScene(scene)
    /\ lastOp' = "changeScene"
    /\ uiUnchanged

\* a call of StartScreen.show(), as by the debug-mode listener of the engine
StartScreenShow ==
    /\ startScreen.nextRequest <= MaxFrameRequests
    /\ startScreen' = startScreenShow(startScreen)
    /\ lastOp' = "show"
    /\ UNCHANGED currentScene
    /\ uiUnchanged

\* a call of StartScreen.hide()
StartScreenHide ==
    /\ startScreen' = startScreenHide(startScreen)
    /\ lastOp' = "hide"
    /\ UNCHANGED currentScene
    /\ uiUnchanged

\* an animation frame of the browser
StartScreenFrame ==
    /\ startScreen.requests # {}
    /\ startScreen.nextRequest + Cardinality(startScreen.requests) - 1 <= MaxFrameRequests
    /\ startScreen' = runCallbacks(startScreen, startScreen.requests)
    /\ lastOp' = "frame"
    /\ UNCHANGED currentScene
    /\ uiUnchanged

StartNext == ChangeScene \/ StartScreenShow \/ StartScreenHide \/ StartScreenFrame

StartSpec == Init /\ [][StartNext]_vars

-----------------------------------------------------------------------------
(* The store handed degenerate directions: ZeroSpec spawns up to             *)
(* MaxZeroShots projectiles, along +z or with the zero vector as direction,  *)
(* and advances, tests and removes them.                                     *)

SpawnAlongZ ==
    /\ nextId <= MaxZeroShots
    /\ createProjectile(Vec(0, 0, 0), Vec(0, 0, 1000), NoConfig)
    /\ lastOp' = "spawn"
    /\ UNCHANGED <<weaponVars, frameVars, kept, aircraftVars, modelVars, loopVars>>

\* createProjectile with a direction of length zero
SpawnZero ==
    /\ nextId <= MaxZeroShots
    /\ \E position \in {Vec(0, 0, 0), Vec(0, 0, 70)} :
          createProjectile(position, Vec(0, 0, 0), NoConfig)
    /\ lastOp' = "spawnZero"
    /\ UNCHANGED <<weaponVars, frameVars, kept, aircraftVars, modelVars, loopVars>>

ZeroNext == SpawnAlongZ \/ SpawnZero \/ AdvanceShots \/ TestShots \/ RemoveShot \/ RemoveAll

ZeroSpec == Init /\ [][ZeroNext]_vars

-----------------------------------------------------------------------------
(* The frame loop: GameEngine.animate -> GameEngine.update ->               *)
(* GameScene.update, with the GAME scene current.  Date.now() and           *)
(* performance.now() advance together with real time.                       *)

\* time between two animation frames, ms
FrameLengths == {100, 150, 600}

\* TimeManager.getElapsedTime() of the engine's TimeManager: elapsedTime starts
\* at 0 and only TimeManager.update() changes it, which the engine never calls
getElapsedTime == 0

\* (currentTime - this.lastTime) / 1000: milliseconds to seconds
MsToSeconds(ms) == (ms * 1000) \div 1000

\* variant: the next frame is requested after update and render
RequestsFrameLast(statement) == statement = "last"

\* whether animate calls requestAnimationFrame at its first or at its last
\* statement: `this.animationFrameId = requestAnimationFrame(...)` is the
\* first one
RequestsFrame(statement) == statement = "first"

\* GameEngine.animate up to the call of GameScene.update, the next animation
\* frame coming after one of the lengths `lens`
animate(lens, horizon) ==
    /\ pc = "idle"
    /\ scheduled
    /\ scheduled' = RequestsFrame("first")
    /\ \E len \in lens :
          /\ clock + len <= horizon
          /\ clock' = clock + len
          /\ deltaTime' = MsToSeconds(clock + len - lastTime)
          /\ lastTime' = clock + len
    /\ stalePose' = aircraft
    /\ pc' = "modelSwitching"
    /\ lastOp' = "animate"
    /\ UNCHANGED <<storeVars, weaponVars, nowArg, spaceDown, kept, aircraftVars, modelVars,
                   keys, legacy, uiVars, levelLoaded, faults>>

\* InputManager.handleKeyDown for the space key; the browser delivers key
\* events between animation frames
KeyDown ==
    /\ pc = "idle"
    /\ spaceDown' = TRUE
    /\ lastOp' = "keydown"
    /\ UNCHANGED <<storeVars, weaponVars, clock, lastTime, deltaTime, nowArg, pc, kept,
                   aircraftVars, modelVars, loopVars>>

\* InputManager.handleKeyUp for the space key
KeyUp ==
    /\ pc = "idle"
    /\ spaceDown' = FALSE
    /\ lastOp' = "keyup"
    /\ UNCHANGED <<storeVars, weaponVars, clock, lastTime, deltaTime, nowArg, pc, kept,
                   aircraftVars, modelVars, loopVars>>

\* GameScene.handleAircraftModelSwitching(inputManager)
handleAircraftModelSwitching ==
    IF isKeyPressed(KeyOf("ONE")) THEN setModelType(1)
    ELSE IF isKeyPressed(KeyOf("TWO")) THEN setModelType(2)
    ELSE IF isKeyPressed(KeyOf("THREE")) THEN setModelType(3)
    ELSE IF isKeyPressed(KeyOf("FOUR")) THEN setModelType(4)
    ELSE IF isKeyPressed(KeyOf("FIVE")) THEN setModelType(5)
    ELSE UNCHANGED modelVars

\* GameScene.update: this.handleAircraftModelSwitching(inputManager)
ModelSwitching ==
    /\ pc = "modelSwitching"
    /\ handleAircraftModelSwitching
    /\ pc' = "aircraftUpdate"
    /\ lastOp' = "modelSwitching"
    /\ UNCHANGED <<storeVars, weaponVars, spaceDown, clock, lastTime, deltaTime, nowArg,
                   kept, aircraftVars, loopVars>>

\* GameScene.update: this.playerAircraft.update(deltaTime, inputManager)
AircraftUpdate ==
    /\ pc = "aircraftUpdate"
    /\ aircraft' = aircraftUpdate(aircraft, keys, deltaTime, maxSpeed)
    /\ pc' = "handleInput"
    /\ lastOp' = "aircraftUpdate"
    /\ UNCHANGED <<storeVars, weaponVars, spaceDown, clock, lastTime, deltaTime, nowArg,
                   kept, modelVars, loopVars>>

\* GameScene.update: this.weaponSystem.handleInput(inputManager, elapsed)
WeaponHandleInput ==
    /\ pc = "handleInput"
    /\ handleInput
    /\ nowArg' = getElapsedTime
    /\ pc' = "weaponUpdate"
    /\ lastOp' = "handleInput"
    /\ UNCHANGED <<storeVars, lastFireTime, prevFireTime, shots, spawnedInUpdate,
                   holdStart, holdFires, spaceDown, clock, lastTime, deltaTime, kept,
                   aircraftVars, modelVars, loopVars>>

\* GameScene.update: this.weaponSystem.update(deltaTime, elapsed)
WeaponUpdate ==
    /\ pc = "weaponUpdate"
    /\ weaponUpdate(deltaTime, nowArg)
    /\ pc' = "projectilesUpdate"
    /\ lastOp' = "weaponUpdate"
    /\ UNCHANGED <<spaceDown, clock, lastTime, deltaTime, nowArg, kept, aircraftVars,
                   modelVars, loopVars>>

\* the animation frame callback is over: the promise continuations that wait
\* run before the browser does anything else
endOfFrame ==
    /\ resumeChangeAircraftModel
    /\ pc' = "idle"

\* GameScene.update: this.projectileManager.update(deltaTime), the last step
\* of the frame that changes the simulation; nothing in the frame calls
\* ProjectileManager.checkCollisions.  GameEngine.update and animate then
\* run to their ends.
ProjectilesUpdate ==
    /\ pc = "projectilesUpdate"
    /\ managerUpdate(deltaTime)
    /\ endOfFrame
    /\ scheduled' = (scheduled \/ RequestsFrame("last"))
    /\ lastOp' = "advance"
    /\ UNCHANGED <<weaponVars, spaceDown, clock, lastTime, deltaTime, nowArg, kept,
                   aircraftVars, keys, legacy, uiVars, levelLoaded, stalePose, faults>>

Animate == animate(FrameLengths, MaxClock)

FrameNext ==
    \/ KeyDown \/ KeyUp \/ Animate \/ ModelSwitching \/ AircraftUpdate
    \/ WeaponHandleInput \/ WeaponUpdate \/ ProjectilesUpdate

FrameSpec == Init /\ [][FrameNext]_vars

-----------------------------------------------------------------------------
(* The frame loop with the fire key held down in every frame: the key goes   *)
(* down before the first frame and is not released.                         *)

\* time between two animation frames, ms
HoldFrameLengths == {100, 200, 300}

HoldAnimate == spaceDown /\ animate(HoldFrameLengths, MaxHoldClock)

HoldNext ==
    \/ KeyDown \/ HoldAnimate \/ ModelSwitching \/ AircraftUpdate
    \/ WeaponHandleInput \/ WeaponUpdate \/ ProjectilesUpdate

HoldSpec == Init /\ [][HoldNext]_vars

-----------------------------------------------------------------------------
(* The frame loop with the flight keys: FlightSpec builds either source of   *)
(* PlayerAircraft, presses and releases keys between the frames of its first *)
(* MaxKeyClock ms and holds them afterwards up to MaxFlightClock, long       *)
(* enough for the throttle of part_009 to reach 1 (20 frames).  The level    *)
(* may finish loading between two of the early frames.                       *)

\* time between two animation frames, ms
FlightFrameLengths == {100}

\* the keys that are down between two frames
KeyCombos ==
    { {},
      {KeyOf("SHIFT"), KeyOf("SPACE")},
      {KeyOf("UP"), KeyOf("LEFT"), KeyOf("SPACE")},
      {KeyOf("SHIFT"), KeyOf("DOWN"), KeyOf("E"), KeyOf("SPACE")},
      {KeyOf("W"), KeyOf("RIGHT"), KeyOf("Q")},
      {KeyOf("A")},
      {KeyOf("SHIFT"), KeyOf("UP"), KeyOf("LEFT"), KeyOf("RIGHT")} }

FlightInit == InitObjects /\ legacy \in BOOLEAN

\* InputManager.handleKeyDown and handleKeyUp for the keys that change between
\* two frames
KeyEvents ==
    /\ pc = "idle"
    /\ clock < MaxKeyClock
    /\ \E ks \in KeyCombos :
          /\ keys' = ks \ {KeyOf("SPACE")}
          /\ spaceDown' = (KeyOf("SPACE") \in ks)
    /\ lastOp' = "keys"
    /\ UNCHANGED <<storeVars, weaponVars, clock, lastTime, deltaTime, nowArg, pc, kept,
                   aircraftVars, modelVars, legacy, uiVars, levelLoaded, stalePose, scheduled,
                   faults>>

\* GameScene.loadLevel after `await this.levelLoader.loadLevel(levelNumber)`:
\* the aircraft is put on the runway and reset
LoadLevel ==
    /\ pc = "idle"
    /\ clock < MaxKeyClock
    /\ ~levelLoaded
    /\ aircraft' = resetState(setPosition(aircraft, Vec(0, 2000, -3000000)))
    /\ levelLoaded' = TRUE
    /\ lastOp' = "loadLevel"
    /\ UNCHANGED <<storeVars, weaponVars, spaceDown, clock, lastTime, deltaTime, nowArg,
                   pc, kept, modelVars, keys, legacy, uiVars, stalePose, scheduled, faults>>

FlightAnimate == animate(FlightFrameLengths, MaxFlightClock)

FlightNext ==
    \/ KeyEvents \/ LoadLevel \/ FlightAnimate \/ ModelSwitching \/ AircraftUpdate
    \/ WeaponHandleInput \/ WeaponUpdate \/ ProjectilesUpdate

FlightSpec == FlightInit /\ [][FlightNext]_vars

-----------------------------------------------------------------------------
(* Switching the aircraft model: ModelSpec calls setModelType with ids in    *)
(* and around 1..5 between the frames, and runs frames with number keys      *)
(* down, up to MaxModelClock.                                                *)

\* arguments of setModelType
ModelIds == 0..6

\* the keys that are down between two frames
ModelKeyCombos ==
    { {}, {KeyOf("ONE")}, {KeyOf("TWO")}, {KeyOf("THREE"), KeyOf("FIVE")},
      {KeyOf("FOUR"), KeyOf("SHIFT")}, {KeyOf("FIVE"), KeyOf("UP")} }

\* InputManager.handleKeyDown and handleKeyUp for the keys that change between
\* two frames
ModelKeyEvents ==
    /\ pc = "idle"
    /\ \E ks \in ModelKeyCombos : keys' = ks
    /\ lastOp' = "keys"
    /\ UNCHANGED <<storeVars, weaponVars, frameVars, kept, aircraftVars, modelVars,
                   legacy, uiVars, levelLoaded, stalePose, scheduled, faults>>

\* a call of PlayerAircraft.setModelType between two frames
SetModelType ==
    /\ pc = "idle"
    /\ errorsLogged < MaxErrorsLogged
    /\ \E id \in ModelIds : setModelType(id)
    /\ pc' = "resume"
    /\ lastOp' = "setModelType"
    /\ UNCHANGED <<storeVars, weaponVars, spaceDown, clock, lastTime, deltaTime, nowArg,
                   kept, aircraftVars, loopVars>>

\* the caller of setModelType has returned: the promise continuations run
Resume ==
    /\ pc = "resume"
    /\ endOfFrame
    /\ lastOp' = "resume"
    /\ UNCHANGED <<storeVars, weaponVars, spaceDown, clock, lastTime, deltaTime, nowArg,
                   kept, aircraftVars, loopVars>>

ModelAnimate == animate(FlightFrameLengths, MaxModelClock)

ModelNext ==
    \/ ModelKeyEvents \/ SetModelType \/ Resume \/ ModelAnimate \/ ModelSwitching
    \/ AircraftUpdate \/ WeaponHandleInput \/ WeaponUpdate \/ ProjectilesUpdate

ModelSpec == FlightInit /\ [][ModelNext]_vars

-----------------------------------------------------------------------------
(* Overlapping model changes: in OverlapSpec setModelType may be called      *)
(* again while earlier calls wait for their loads, and the calls that wait   *)
(* resume one at a time or all together.                                     *)

\* a call of PlayerAircraft.setModelType while an earlier call waits at
\* `await this.loadAircraftModel()`
SetModelTypeAgain ==
    /\ pc = "resume"
    /\ pendingLoads # <<>>
    /\ Len(pendingLoads) < MaxPendingLoads
    /\ errorsLogged < MaxErrorsLogged
    /\ \E id \in ModelIds : setModelType(id)
    /\ lastOp' = "setModelTypeAgain"
    /\ UNCHANGED <<storeVars, weaponVars, frameVars, kept, aircraftVars, loopVars>>

\* the load of one waiting call is over and its changeAircraftModel resumes
CompleteLoad ==
    /\ pc = "resume"
    /\ pendingLoads # <<>>
    /\ completeLoad
    /\ lastOp' = "completeLoad"
    /\ UNCHANGED <<storeVars, weaponVars, frameVars, kept, aircraftVars, loopVars>>

OverlapNext == SetModelType \/ SetModelTypeAgain \/ CompleteLoad \/ Resume

OverlapSpec == FlightInit /\ [][OverlapNext]_vars

-----------------------------------------------------------------------------
(* Exceptions: in FaultSpec a step of GameScene.update may throw, up to      *)
(* MaxFaults times.  Nothing between the throw and the browser catches it:   *)
(* the rest of GameScene.update, of GameEngine.update and of animate,        *)
(* rendering included, does not run.                                         *)

\* an exception leaves GameEngine.update before the step the frame has come to
Fault ==
    /\ pc \in {"modelSwitching", "aircraftUpdate", "handleInput", "weaponUpdate",
               "projectilesUpdate"}
    /\ faults < MaxFaults
    /\ faults' = faults + 1
    /\ endOfFrame
    /\ lastOp' = "fault"
    /\ UNCHANGED <<storeVars, weaponVars, spaceDown, clock, lastTime, deltaTime, nowArg,
                   kept, aircraftVars, keys, legacy, uiVars, levelLoaded, stalePose, scheduled>>

FaultAnimate == animate(FlightFrameLengths, MaxFaultClock)

FaultNext ==
    \/ KeyDown \/ KeyUp \/ FaultAnimate \/ ModelSwitching \/ AircraftUpdate
    \/ WeaponHandleInput \/ WeaponUpdate \/ ProjectilesUpdate \/ Fault

FaultSpec == Init /\ [][FaultNext]_vars

-----------------------------------------------------------------------------
(* Claims about the ProjectileManager *)

Range(f) == {f[i] : i \in DOMAIN f}

\* the Projectile objects constructed so far that are not in the store
Dead == (1..(nextId - 1)) \ Ids(projectiles)

\* C1: in every state reachable by any interleaving of spawn, advance,
\* testCollisions, removeProjectile and removeAll the store holds at most 20
\* projectiles.
C1_CapacityBound == Len(projectiles) <= 20

\* a spawn into a full store: 20 projectiles before and after, one evicted
C1_Witness ==
    /\ lastOp = "spawn"
    /\ Len(projectiles) = 20
    /\ lastRemoved # {}

\* the store holds exactly the min(20, N) most recently constructed of the
\* N = next - 1 projectiles, in spawn order
MostRecent(ps, next) ==
    LET n == IF next - 1 > 20 THEN 20 ELSE next - 1
    IN [i \in 1..Len(ps) |-> ps[i].id] = [i \in 1..n |-> next - 1 - n + i]

\* C2: spawn never fails and evicts FIFO.  Every spawn step appends the new
\* projectile as the newest entry; if 20 were stored, exactly the oldest is
\* taken out (and its mesh leaves the scene) and the others keep their
\* places, otherwise nothing is taken out.  The store is always in spawn
\* order, and a spawn into a store that holds the most recent min(20, N)
\* projectiles leaves it holding the most recent min(20, N + 1): N > 20 spawns
\* in sequence leave exactly the 20 most recently spawned.
C2_SpawnFifo ==
    [][/\ nextId' # nextId =>
            LET n == Len(projectiles')
            IN /\ n >= 1
               /\ projectiles'[n].id = nextId
               /\ projectiles'[n].age = 0
               /\ projectiles'[n].active
               /\ nextId \in sceneMeshes'
               /\ IF Len(projectiles) >= 20
                  THEN /\ SubSeq(projectiles', 1, n - 1) = Tail(projectiles)
                       /\ lastRemoved' = {Head(projectiles)}
                       /\ Head(projectiles).id \notin sceneMeshes'
                       /\ n = 20
                  ELSE /\ SubSeq(projectiles', 1, n - 1) = projectiles
                       /\ lastRemoved' = {}
       /\ \A i \in 2..Len(projectiles') :
            projectiles'[i - 1].id < projectiles'[i].id
       /\ (nextId' # nextId /\ MostRecent(projectiles, nextId))
            => MostRecent(projectiles', nextId')
      ]_vars

\* 21 spawns in sequence and nothing else: the first projectile is gone, the
\* store holds the projectiles 2..21 in spawn order
C2_Witness ==
    /\ nextId = 22
    /\ lastOp = "spawn"
    /\ [i \in 1..Len(projectiles) |-> projectiles[i].id] = [i \in 1..20 |-> i + 1]
    /\ sceneMeshes = 2..21

\* the projectiles of ps that Projectile.checkCollision would have to report
\* if the boundary counted as a hit: squared distance <= (hitRadius + r)^2
InRangeInclusive(p, t, r) ==
    p.active /\ VDistSq(p.position, t) <= (p.hitRadius + r) * (p.hitRadius + r)

\* the same with the boundary counting as a miss
InRangeStrict(p, t, r) ==
    p.active /\ VDistSq(p.position, t) < (p.hitRadius + r) * (p.hitRadius + r)

\* C3, as claimed: testCollisions(target, r) reports a projectile at distance d
\* as a hit if and only if d <= hitRadius + r, the boundary d = hitRadius + r
\* being a hit.
C3_AsClaimed ==
    [][\A t \in ShotTargets, r \in ShotRadii :
          (lastOp' = "testCollisions" /\ checkCollisions(t, r)) =>
              \A i \in 1..Len(projectiles) :
                  projectiles[i].id \in Range(lastHits') <=>
                      InRangeInclusive(projectiles[i], t, r)
      ]_vars

\* C3, amended: testCollisions(target, r) reports a projectile at distance d
\* as a hit if and only if d < hitRadius + r; a projectile exactly on the
\* boundary d = hitRadius + r is a miss and stays in the store.
C3_HitIffStrictlyInside ==
    [][\A t \in ShotTargets, r \in ShotRadii :
          (lastOp' = "testCollisions" /\ checkCollisions(t, r)) =>
              \A i \in 1..Len(projectiles) :
                  /\ projectiles[i].id \in Range(lastHits') <=>
                         InRangeStrict(projectiles[i], t, r)
                  /\ projectiles[i].id \in Ids(projectiles') <=>
                         ~InRangeStrict(projectiles[i], t, r)
      ]_vars

\* a collision test that struck one projectile and left another that lies
\* exactly on the boundary of the same target
C3_Witness ==
    /\ lastOp = "testCollisions"
    /\ \E t \in ShotTargets, r \in ShotRadii :
          /\ lastRemoved # {}
          /\ \A g \in lastRemoved : VDistSq(g.position, t) <
                                        (g.hitRadius + r) * (g.hitRadius + r)
          /\ \A i \in 1..Len(projectiles) : ~InRangeStrict(projectiles[i], t, r)
          /\ \E i \in 1..Len(projectiles) :
                VDistSq(projectiles[i].position, t) =
                    (projectiles[i].hitRadius + r) * (projectiles[i].hitRadius + r)

\* C4: a projectile returned as a hit by one testCollisions call is removed
\* from the store by that call and is never returned by a later call, whatever
\* happens in between.  `kept` is any one projectile an earlier call returned.
C4_HitOnce ==
    [][/\ lastOp' = "testCollisions" =>
            /\ Range(lastHits') \subseteq Ids(projectiles)
            /\ Range(lastHits') \cap Ids(projectiles') = {}
            /\ kept # 0 => kept \notin Range(lastHits')
       /\ kept' # 0 => kept' \notin Ids(projectiles')
       /\ Ids(projectiles') \cap Dead = {}
      ]_vars

\* a later collision test that struck projectiles, none of them the one kept
\* from an earlier test
C4_Witness ==
    /\ lastOp = "testCollisions"
    /\ kept # 0
    /\ lastHits # <<>>
    /\ kept \notin Range(lastHits)

\* C5: advance removes a projectile with lifetime L exactly at the first call
\* at which its age, the sum of the deltaTimes in milliseconds, reaches L: on
\* that call it is deactivated and taken out and the count drops by one for
\* it; on every earlier call it stays in the store, active, its age grown by
\* the deltaTime.  (dt is in thousandths of a second, i.e. in milliseconds.)
C5_ExpiryAtLifetime ==
    [][\A dt \in ShotDeltas :
          (lastOp' = "advance" /\ managerUpdate(dt)) =>
              /\ \A i \in 1..Len(projectiles) :
                    LET p == projectiles[i]
                    IN IF p.age + dt >= p.lifetime
                       THEN /\ p.id \notin Ids(projectiles')
                            /\ \E g \in lastRemoved' : g.id = p.id /\ ~g.active
                       ELSE \E j \in 1..Len(projectiles') :
                                /\ projectiles'[j].id = p.id
                                /\ projectiles'[j].active
                                /\ projectiles'[j].age = p.age + dt
              /\ Len(projectiles') = Len(projectiles) -
                    Cardinality({i \in 1..Len(projectiles) :
                        projectiles[i].age + dt >= projectiles[i].lifetime})
      ]_vars

\* an advance at which a projectile reached exactly its lifetime and was
\* removed while a younger one stayed
C5_Witness ==
    /\ lastOp = "advance"
    /\ \E g \in lastRemoved : g.age = g.lifetime /\ ~g.active
    /\ \E i \in 1..Len(projectiles) :
          projectiles[i].age > 0 /\ projectiles[i].age < projectiles[i].lifetime

-----------------------------------------------------------------------------
(* Claims about the WeaponSystem in the frame loop *)

\* C6: rate limit.  A projectile is spawned only when the clock tryFireWeapon
\* reads is at least minFireInterval = 200 ms past the previous fire time, and
\* that reading becomes the fire time; so the fire times of two successive
\* projectiles, and hence of any two, differ by at least 200 ms whatever the
\* weapon's fireRate, and an attempt less than 200 ms after a fire spawns
\* nothing.
C6_RateLimit ==
    [][/\ nextId' # nextId =>
            /\ pc = "weaponUpdate"
            /\ DateNow - lastFireTime >= 200
            /\ lastFireTime' = DateNow
            /\ shots' >= 2 => lastFireTime' - prevFireTime' >= 200
       /\ (pc = "weaponUpdate" /\ DateNow - lastFireTime < 200) =>
            /\ nextId' = nextId
            /\ lastFireTime' = lastFireTime
      ]_vars

\* two projectiles fired exactly 200 ms apart, and a later attempt with the
\* trigger held, less than 200 ms after the second, that spawned nothing
C6_Witness ==
    /\ lastOp = "weaponUpdate"
    /\ isFiring
    /\ spawnedInUpdate = 0
    /\ shots >= 2
    /\ lastFireTime - prevFireTime = 200
    /\ DateNow - lastFireTime < 200

\* C7: every WeaponSystem.update call spawns at most one projectile, however
\* long the frame was, and none when isFiring is false; isFiring is what
\* isKeyPressed(SPACE) returned at the latest handleInput, and nothing else in
\* the frame spawns or changes isFiring.
C7_OneShotPerUpdate ==
    [][/\ pc = "weaponUpdate" =>
            /\ nextId' - nextId \in {0, 1}
            /\ spawnedInUpdate' = nextId' - nextId
            /\ Len(projectiles') <= Len(projectiles) + 1
            /\ ~isFiring => (nextId' = nextId /\ projectiles' = projectiles)
       /\ pc # "weaponUpdate" => nextId' = nextId
       /\ pc = "handleInput" => isFiring' = spaceDown
       /\ pc # "handleInput" => isFiring' = isFiring
      ]_vars

\* an update 600 ms (three fire intervals) after the previous one, which
\* itself fired, spawned one projectile
C7_Witness ==
    /\ lastOp = "weaponUpdate"
    /\ isFiring
    /\ deltaTime = 600
    /\ shots >= 2
    /\ lastFireTime - prevFireTime = 600
    /\ spawnedInUpdate = 1

\* C8: the fire decision of update(now) is isFiring /\ now - lastFireTime >=
\* minFireInterval for the now argument handed in, and a successful fire sets
\* lastFireTime to that argument; a rejected attempt leaves it.
C8_AsClaimed ==
    [][pc = "weaponUpdate" =>
          LET fires == isFiring /\ nowArg - lastFireTime >= minFireInterval
          IN /\ (nextId' # nextId) <=> fires
             /\ lastFireTime' = IF fires THEN nowArg ELSE lastFireTime
      ]_vars

-----------------------------------------------------------------------------
(* Claims about the frame loop with the fire key held *)

\* the latest frame's WeaponSystem.update has run
AfterWeaponUpdate == holdStart # -1 /\ pc \in {"projectilesUpdate", "idle"}

\* time from the first update with the trigger held to the latest update, ms
HeldFor == clock - holdStart

MaxAlive == weapons[currentWeaponIndex].projectileLifetime \div minFireInterval + 1

-----------------------------------------------------------------------------
(* Claims about the PlayerAircraft *)

\* C11: in every state of the flight, after updatePhysics of either source and
\* after resetState, the throttle is at least 0 and at most 1, whatever keys
\* were pressed
C11_ThrottleRange == aircraft.throttle >= 0 /\ aircraft.throttle <= 10000

\* the aircraft of part_009 has accelerated for more frames than the throttle
\* needs to reach 1, and the throttle is 1
C11_Witness ==
    /\ ~legacy
    /\ lastOp = "aircraftUpdate"
    /\ aircraft.isAccelerating
    /\ aircraft.throttle = 10000
    /\ clock > 20 * 100

\* C12: in every state of the flight, from the constructed state and from the
\* reset one, the pitch of the aircraft (rotation.x, and the mesh's copy of
\* it) lies within [-pi/3, pi/3]
C12_PitchRange ==
    /\ Abs(aircraft.rotation.x) <= PiThird
    /\ Abs(aircraft.meshRotation.x) <= PiThird

\* the pitch was integrated with a positive pitch rate and stands at pi/3
C12_Witness ==
    /\ legacy
    /\ lastOp = "aircraftUpdate"
    /\ aircraft.rotationVelocity[1] > 0
    /\ aircraft.rotation.x = PiThird

\* C13: a handleInput of part_009 with up and a turn key down sets the
\* banked-turn flag, moves the yaw by 3.0 * 0.025 = 0.075 (toward the left if
\* left is down, else toward the right) and nothing more, and eases the roll
\* toward -1.4 or 1.4; a handleInput without such a combination clears the flag
C13_BankedTurnOnly ==
    [][ (pc = "aircraftUpdate" /\ ~legacy) =>
          LET up    == UpPressed(keys)
              left  == LeftPressed(keys)
              right == RightPressed(keys)
              roll  == IF left THEN -14000 ELSE 14000
              old   == aircraft.rotation
              new   == aircraft'.rotation
          IN IF up /\ (left \/ right)
             THEN /\ aircraft'.isInBankedTurn
                  /\ new.y - old.y = (IF left THEN 750 ELSE -750)
                  /\ IF Abs(old.z - roll) < 100
                     THEN new.z = roll
                     ELSE new.z - old.z = Quot((roll - old.z) * 3, 10)
             ELSE ~aircraft'.isInBankedTurn ]_vars

\* up and right were down in the first handleInput: the flag is set and the
\* yaw is one banked increment to the right
C13_Witness ==
    /\ ~legacy
    /\ lastOp = "aircraftUpdate"
    /\ UpPressed(keys) /\ RightPressed(keys) /\ ~LeftPressed(keys)
    /\ aircraft.isInBankedTurn
    /\ aircraft.rotation.y = -750
    /\ aircraft.rotation.z = 4200

\* the height updateTransform lifts the aircraft to: 5 in part_009, 2 in the
\* copy in asset-manager.ts
GroundHeight == IF legacy THEN 2000 ELSE 5000

\* C14: from updateTransform to the end of its frame, position.y is at least
\* the ground height, and if updateTransform took its ground branch in this
\* frame the aircraft stands at the ground height with vertical velocity 0
C14_GroundClamp ==
    (pc \in {"handleInput", "weaponUpdate", "projectilesUpdate"}
        \/ (pc = "idle" /\ lastOp = "advance"))
    => /\ aircraft.position[2] >= GroundHeight
       /\ aircraft.groundClamped =>
             /\ aircraft.position[2] = GroundHeight
             /\ aircraft.velocity[2] = 0

\* the aircraft of part_009 has flown into the ground, not having been put
\* there by loadLevel: the frame ends with the clamp applied while the
\* aircraft still flies nose down
C14_Witness ==
    /\ ~legacy
    /\ ~levelLoaded
    /\ pc = "idle" /\ lastOp = "advance"
    /\ aircraft.groundClamped
    /\ aircraft.throttle > 0
    /\ aircraft.rotation.x > 0
    /\ aircraft.position[2] = 5000

\* C15: a call setModelType(id) with id below 1 or above 5 logs one error and
\* leaves modelType, maxSpeed, the calls that wait and the aircraft's
\* kinematic state as they were, and so does the return of its caller
C15_InvalidRejected ==
    [][ /\ (lastOp' = "setModelType" /\ (lastModelRequest' < 1 \/ lastModelRequest' > 5))
           => /\ errorsLogged' = errorsLogged + 1
              /\ modelType' = modelType
              /\ maxSpeed' = maxSpeed
              /\ pendingLoads' = pendingLoads
              /\ aircraft' = aircraft
        /\ (lastOp = "setModelType" /\ (lastModelRequest < 1 \/ lastModelRequest > 5))
           => /\ errorsLogged' = errorsLogged
              /\ modelType' = modelType
              /\ maxSpeed' = maxSpeed
              /\ aircraft' = aircraft ]_vars

\* the model was switched to 3, then setModelType(6) was called, and a frame
\* has run since with model 3 and its speed
C15_Witness ==
    /\ lastModelRequest = 6
    /\ errorsLogged = 1
    /\ pc = "idle" /\ lastOp = "advance"
    /\ modelType = 3
    /\ maxSpeed = 90

\* C16 as claimed: once a call setModelType(id) with id in 1..5 and its load
\* are over, modelType is id and maxSpeed is entry id of (120, 100, 90, 80, 76)
C16_AsClaimed ==
    (pc = "idle" /\ lastOp = "resume" /\ lastModelRequest \in 1..5)
    => /\ modelType = lastModelRequest
       /\ maxSpeed = <<120, 100, 90, 80, 76>>[lastModelRequest]

-----------------------------------------------------------------------------
(* Claims about the frame *)

\* C17: a projectile the WeaponSystem creates in a frame starts at the
\* position, moved by the rotated firePosition, and flies along the rotated
\* +z axis of the pose that PlayerAircraft.update made in the same frame out
\* of the aircraft the frame began with
C17_FiresFromFreshPose ==
    [][ (pc = "weaponUpdate" /\ spawnedInUpdate' = 1) =>
          LET pose == aircraftUpdate(stalePose, keys, deltaTime, maxSpeed)
              shot == projectiles'[Len(projectiles')]
          IN /\ aircraft = pose
             /\ shot.position = VAdd(WorldToTenths(pose.position),
                                     applyEuler(Vec(0, 0, -80), pose.meshRotation))
             /\ shot.direction = VNormalize(applyEuler(Vec(0, 0, 1000), pose.meshRotation))
      ]_vars

\* a projectile has been created in a frame that moved and turned the
\* aircraft: the pose at the start of the frame would have given another
\* position and another direction
C17_Witness ==
    /\ pc = "projectilesUpdate"
    /\ spawnedInUpdate = 1
    /\ aircraft.throttle > 0
    /\ LET shot == projectiles[Len(projectiles)]
       IN /\ shot.position # VAdd(WorldToTenths(stalePose.position),
                                  applyEuler(Vec(0, 0, -80), stalePose.meshRotation))
          /\ shot.direction # VNormalize(applyEuler(Vec(0, 0, 1000), stalePose.meshRotation))

\* C18 as claimed: the steps of a frame follow one another in the order model
\* switching (reading the keys), aircraft update, weapon input and update,
\* projectile advance, and a frame is over only with a testCollisions
C18_AsClaimed ==
    [][ /\ pc = "modelSwitching" => pc' = "aircraftUpdate"
        /\ pc = "aircraftUpdate" => pc' = "handleInput"
        /\ pc = "handleInput" => pc' = "weaponUpdate"
        /\ pc = "weaponUpdate" => pc' = "projectilesUpdate"
        /\ pc = "projectilesUpdate" => lastOp' \in {"advance", "testCollisions"}
        /\ (pc # "idle" /\ pc' = "idle") => lastOp' = "testCollisions" ]_vars

-----------------------------------------------------------------------------
(* Claims about degenerate input and faults *)

\* C19 as claimed: a spawn with a direction of length zero creates no
\* projectile and leaves the contents and the count of the store as they were
C19_AsClaimed ==
    [][ lastOp' = "spawnZero" =>
          /\ projectiles' = projectiles
          /\ sceneMeshes' = sceneMeshes
          /\ nextId' = nextId ]_vars

\* C20: between two frames an animation frame is pending and the next
\* animate can run, whether the frame before ran to its end or threw
C20_FaultsDoNotHalt ==
    pc = "idle" =>
        /\ scheduled
        /\ clock + 100 <= MaxFaultClock => ENABLED FaultAnimate

\* update threw in one frame, and a later frame has run to its end
C20_Witness ==
    /\ faults > 0
    /\ pc = "idle"
    /\ lastOp = "advance"
    /\ scheduled

-----------------------------------------------------------------------------
(* Further claims about the Projectile and the ProjectileManager *)

\* C21: the velocity of a stored projectile is its direction times its speed
\* and no step changes it; a step that ages a projectile which stays in the
\* store moves it by its velocity times the time it aged, and any other step
\* leaves its position alone.  A projectile spawned at the origin along
\* (0,0,1) with speed 350 is at (0,0,35) after one update of 0.1 s.
C21_Ballistic ==
    [][ /\ \A i \in 1..Len(projectiles), j \in 1..Len(projectiles') :
              projectiles[i].id = projectiles'[j].id =>
                 LET old == projectiles[i]
                     new == projectiles'[j]
                 IN /\ old.velocity = VScale(old.direction, old.speed)
                    /\ new.velocity = old.velocity
                    /\ new.position =
                          VAdd(old.position, VScale(old.velocity, new.age - old.age))
        /\ ProjectileUpdate(
               NewProjectile(1, Vec(0, 0, 0), Vec(0, 0, 1000),
                             [speed |-> 3500, lifetime |-> 1500]),
               100).position = Vec(0, 0, 350) ]_vars

\* a projectile spawned at the origin along (0.6, 0, 0.8) with speed 350 has
\* been advanced once by 0.25 s and is at (52.5, 0, 70)
C21_Witness ==
    /\ lastOp = "advance"
    /\ \E i \in 1..Len(projectiles) :
          /\ projectiles[i].age = 250
          /\ projectiles[i].velocity = Vec(2100, 0, 2800)
          /\ projectiles[i].position = Vec(525, 0, 700)

-----------------------------------------------------------------------------
(* Further claims about the PlayerAircraft *)

\* C22: resetState applied to the aircraft of any state of the flight gives
\* velocity (0,0,0), pitch, yaw and roll 0 (for getRotation too), rotation
\* rates 0 and throttle 0, hence a current speed of 0; the state right after
\* loadLevel, which calls it, is such a state
C22_ResetZero ==
    /\ LET r == resetState(aircraft)
       IN /\ r.velocity = Vec(0, 0, 0)
          /\ r.rotation.x = 0 /\ r.rotation.y = 0 /\ r.rotation.z = 0
          /\ r.meshRotation.x = 0 /\ r.meshRotation.y = 0 /\ r.meshRotation.z = 0
          /\ r.rotationVelocity = Vec(0, 0, 0)
          /\ r.throttle = 0
          /\ maxSpeed * r.throttle = 0
    /\ lastOp = "loadLevel" =>
          /\ aircraft.velocity = Vec(0, 0, 0)
          /\ aircraft.meshRotation.x = 0 /\ aircraft.meshRotation.y = 0
          /\ aircraft.meshRotation.z = 0
          /\ aircraft.throttle = 0

\* loadLevel has reset an aircraft of part_009 that had flown a banked turn
\* under throttle
C22_Witness ==
    /\ ~legacy
    /\ lastOp = "loadLevel"
    /\ stalePose.throttle > 0
    /\ aircraft.isInBankedTurn
    /\ aircraft.throttle = 0
    /\ aircraft.meshRotation.y = 0

-----------------------------------------------------------------------------
(* Further claims about the ProjectileManager *)

\* C23: removeAll, from whatever the store holds, takes every stored
\* projectile out (and its mesh off the scene) and leaves the store empty,
\* with a count of 0
C23_RemoveAllEmpties ==
    [][ lastOp' = "removeAll" =>
          /\ projectiles' = <<>>
          /\ Len(projectiles') = 0
          /\ lastRemoved' = Range(projectiles)
          /\ sceneMeshes' \cap Ids(projectiles) = {} ]_vars

\* removeAll has emptied a full store
C23_Witness ==
    /\ lastOp = "removeAll"
    /\ Cardinality(lastRemoved) = maxProjectiles
    /\ getProjectileCount = 0
    /\ sceneMeshes = {}

\* C24: an advance ages every projectile it finds in the store by the same
\* dt, once: each is afterwards either in the store, younger than its
\* lifetime, or among the removed, at or past its lifetime, and never both;
\* nothing else is in either, and the survivors are in the order they had
C24_AdvanceOnceEach ==
    [][ lastOp' = "advance" =>
          /\ \E dt \in ShotDeltas :
                \A i \in 1..Len(projectiles) :
                   LET old  == projectiles[i]
                       aged == old.age + dt
                       here == {j \in 1..Len(projectiles') : projectiles'[j].id = old.id}
                       gone == {g \in lastRemoved' : g.id = old.id}
                   IN IF aged < old.lifetime
                      THEN /\ Cardinality(here) = 1
                           /\ gone = {}
                           /\ \A j \in here : projectiles'[j].age = aged
                      ELSE /\ here = {}
                           /\ Cardinality(gone) = 1
                           /\ \A g \in gone : g.age = aged
          /\ Len(projectiles') + Cardinality(lastRemoved') = Len(projectiles)
          /\ \A j, k \in 1..Len(projectiles') :
                j < k => IndexOf(projectiles, projectiles'[j].id)
                            < IndexOf(projectiles, projectiles'[k].id) ]_vars

\* an advance has removed a projectile from between two that stay
C24_Witness ==
    /\ lastOp = "advance"
    /\ \E g \in lastRemoved :
          \E j, k \in 1..Len(projectiles) :
             /\ projectiles[j].id < g.id
             /\ g.id < projectiles[k].id
             /\ projectiles[j].age > 0
             /\ projectiles[k].age > 0

\* the sequence s back to front
Reverse(s) == [i \in 1..Len(s) |-> s[Len(s) + 1 - i]]

\* C25: a testCollisions returns the active stored projectiles that are in
\* range of the target (closer than hitRadius + r), each once, the newest
\* first, and leaves in the store the others, as they were and in their order
C25_HitsNewestFirst ==
    [][\A t \in ShotTargets, r \in ShotRadii :
          (lastOp' = "testCollisions" /\ checkCollisions(t, r)) =>
              LET Struck(p) == InRangeStrict(p, t, r)
                  Missed(p) == ~InRangeStrict(p, t, r)
                  struck == SelectSeq(projectiles, Struck)
              IN /\ lastHits' = Reverse([i \in 1..Len(struck) |-> struck[i].id])
                 /\ projectiles' = SelectSeq(projectiles, Missed)
      ]_vars

\* a collision test has returned two projectiles, the newer one first, and
\* has left a third in the store
C25_Witness ==
    /\ lastOp = "testCollisions"
    /\ Len(lastHits) = 2
    /\ lastHits[1] > lastHits[2]
    /\ Len(projectiles) = 1

\* C26: in every state of the store, the projectile meshes attached to the
\* scene are exactly the meshes of the projectiles in the store
C26_SceneMatchesStore == sceneMeshes = Ids(projectiles)

\* projectiles have been evicted and a collision test has just struck some
\* of those that are left: the scene holds the meshes of the rest
C26_Witness ==
    /\ lastOp = "testCollisions"
    /\ lastRemoved # {}
    /\ liveEvicted
    /\ projectiles # <<>>
    /\ sceneMeshes = Ids(projectiles)
    /\ \A g \in lastRemoved : g.id \notin sceneMeshes

-----------------------------------------------------------------------------
(* Further claims about the model of the PlayerAircraft, under OverlapSpec *)

-----------------------------------------------------------------------------
(* Further claims about the ProjectileManager: projectiles that left the store *)

\* C28 as claimed: every Projectile the latest operation took out of the
\* store, by expiry, by a hit, by eviction at capacity or by removeAll, is
\* inactive afterwards
C28_AsClaimed == \A g \in lastRemoved : ~g.active

-----------------------------------------------------------------------------
(* Further claims about the ProjectileManager, under LiveSpec *)

\* C29: every projectile that is in the store is out of the store at some
\* later time, when update keeps being called with a deltaTime above zero,
\* whatever spawns and collision tests are interleaved: at every time, each
\* projectile is out of the store then or later
C29_EventuallyRemoved ==
    \A id \in 1..MaxLiveSpawns : []<>(id \notin Ids(projectiles))

\* the first projectile has left the store by expiry, in an update that kept
\* a younger projectile
C29_Witness ==
    /\ lastOp = "advance"
    /\ \E g \in lastRemoved : g.id = 1 /\ g.age >= g.lifetime /\ ~g.active
    /\ 1 \notin Ids(projectiles)
    /\ \E i \in 1..Len(projectiles) : projectiles[i].age > 0

-----------------------------------------------------------------------------
(* Further claims about the StartScreen, under StartSpec *)

\* C30 as claimed: while the start screen is hidden, that is from a hide()
\* until the next show(), the browser holds no scheduled update callback of
\* the StartScreen
C30_AsClaimed == ~startScreen.isVisible => startScreen.requests = {}

====
